---- MODULE Spec2Model ----
(***************************************************************************)
(* Model of analyseventes.py: analyser_ventes_francophones reads a sales   *)
(* CSV, keeps the rows dated on or after date_debut, classifies each row   *)
(* as francophone or not, counts rows per period and class, derives the    *)
(* percentage table and returns both tables;                               *)
(* analyser_multiple_regroupements calls it once per granularity.          *)
(***************************************************************************)
EXTENDS Integers, Sequences, FiniteSets, TLC

(***************************************************************************)
(* Bounds of the model.                                                    *)
(***************************************************************************)
\* largest number of data rows of a CSV file
MaxLignes == 3
\* largest number of data rows of a CSV file handed to the multi-granularity helper
MaxLignesMultiple == 2

(***************************************************************************)
(* float64 arithmetic, as performed by the column expressions              *)
(*   ventes_par_periode[col] / ventes_par_periode['Total'] * 100           *)
(* A positive double is [m |-> <<hi, mid, lo>>, e |-> exponent]: its value *)
(* is (hi * 2^36 + mid * 2^18 + lo) * 2^e, the mantissa having exactly 53  *)
(* bits (2^16 <= hi < 2^17; mid, lo < 2^18); zero is FloatZero.  Every     *)
(* operation rounds its exact result to nearest, ties to even.             *)
(***************************************************************************)
LimbBits == 18
Base == 2^LimbBits
HiMin == 2^16
HiMax == 2^17

FloatZero == [m |-> <<0, 0, 0>>, e |-> 0]

\* the next double above the positive double of mantissa m and exponent e
FloatSucc(m, e) ==
    LET lo1  == m[3] + 1
        mid1 == m[2] + lo1 \div Base
        hi1  == m[1] + mid1 \div Base
    IN  IF hi1 = HiMax
        THEN [m |-> <<HiMin, 0, 0>>, e |-> e + 1]
        ELSE [m |-> <<hi1, mid1 % Base, lo1 % Base>>, e |-> e]

\* smallest k with num * 2^k >= den  (num >= 1)
RECURSIVE DivShift(_, _)
DivShift(num, den) == IF num >= den THEN 0 ELSE 1 + DivShift(2 * num, den)

\* num / den for integers 0 <= num <= den, 0 < den < 2^13: the int64 operands
\* convert exactly, the quotient is produced by long division, 16 + 18 + 18
\* bits after the leading one, and rounded on the last remainder
FloatDiv(num, den) ==
    IF num = 0 THEN FloatZero
    ELSE LET k  == DivShift(num, den)
             r0 == num * 2^k - den
             q1 == (r0 * HiMin) \div den
             r1 == (r0 * HiMin) % den
             q2 == (r1 * Base) \div den
             r2 == (r1 * Base) % den
             q3 == (r2 * Base) \div den
             r3 == (r2 * Base) % den
             m  == <<HiMin + q1, q2, q3>>
             e  == 0 - k - 52
             up == 2 * r3 > den \/ (2 * r3 = den /\ q3 % 2 = 1)
         IN  IF up THEN FloatSucc(m, e) ELSE [m |-> m, e |-> e]

\* x * 100: the exact product has 59 or 60 bits and is rounded to 53
FloatMul100(x) ==
    IF x = FloatZero THEN FloatZero
    ELSE LET p0   == x.m[3] * 100
             p1   == x.m[2] * 100 + p0 \div Base
             p2   == x.m[1] * 100 + p1 \div Base
             l0   == p0 % Base
             l1   == p1 % Base
             s    == IF p2 >= 2^23 THEN 7 ELSE 6
             d    == l0 % 2^s
             half == 2^(s - 1)
             m    == << p2 \div 2^s,
                        l1 \div 2^s + (p2 % 2^s) * 2^(LimbBits - s),
                        l0 \div 2^s + (l1 % 2^s) * 2^(LimbBits - s) >>
             up   == d > half \/ (d = half /\ m[3] % 2 = 1)
         IN  IF up THEN FloatSucc(m, x.e + s) ELSE [m |-> m, e |-> x.e + s]

\* the double of an integer 1 <= n < 2^17 (exact)
FloatOfInt(n) ==
    LET k == DivShift(1, n + 1) - 1
    IN  [m |-> <<n * 2^(16 - k), 0, 0>>, e |-> k - 52]

(***************************************************************************)
(* Text cells.  A country cell is a sequence of one-character strings; an  *)
(* empty CSV cell is read as NaN.                                          *)
(***************************************************************************)
NaN == <<"<NaN>">>

Majuscules == <<"A","B","C","D","E","F","G","H","I","J","K","L","M",
                "N","O","P","Q","R","S","T","U","V","W","X","Y","Z">>
Minuscules == <<"a","b","c","d","e","f","g","h","i","j","k","l","m",
                "n","o","p","q","r","s","t","u","v","w","x","y","z">>
Blancs == {" ", "\t"}

\* Series.str.lower(): NaN stays NaN
str_lower(s) ==
    IF s = NaN THEN NaN
    ELSE [i \in 1..Len(s) |->
            IF \E j \in 1..26 : Majuscules[j] = s[i]
            THEN Minuscules[CHOOSE j \in 1..26 : Majuscules[j] = s[i]]
            ELSE s[i]]

RECURSIVE StripGauche(_)
StripGauche(s) ==
    IF s # <<>> /\ Head(s) \in Blancs THEN StripGauche(Tail(s)) ELSE s

RECURSIVE StripDroite(_)
StripDroite(s) ==
    IF s # <<>> /\ s[Len(s)] \in Blancs
    THEN StripDroite(SubSeq(s, 1, Len(s) - 1)) ELSE s

\* Series.str.strip(): NaN stays NaN
str_strip(s) == IF s = NaN THEN NaN ELSE StripDroite(StripGauche(s))

\* line 70
pays_francophones == { <<"f","r">>, <<"b","e">>, <<"c","h">>,
                       <<"n","c">>, <<"c","a">>, <<"l","u">> }

\* line 73 with .str.rstrip() for .str.strip(): leading blanks are kept
normaliser_rstrip(code) == IF code = NaN THEN NaN ELSE StripDroite(str_lower(code))

\* line 73: df[colonne_pays].str.lower().str.strip()
normaliser(code) == str_strip(str_lower(code))

\* line 76: Series.isin(pays_francophones), on a normalised code
isin(code) == code \in pays_francophones

(***************************************************************************)
(* Dates.  A date cell is the text 'YYYY-MM-DD', held as <<y, m, d>>;      *)
(* pd.to_datetime turns it into a timestamp, held as its number of days    *)
(* since 1970-01-01, and fails on a text that names no calendar day.       *)
(***************************************************************************)
Bissextile(y) == (y % 4 = 0 /\ y % 100 # 0) \/ y % 400 = 0

JoursDuMois(y, m) ==
    IF m = 2 THEN (IF Bissextile(y) THEN 29 ELSE 28)
    ELSE IF m \in {4, 6, 9, 11} THEN 30 ELSE 31

\* whether pd.to_datetime parses the text
DateValide(t) ==
    /\ Len(t) = 3
    /\ t[2] \in 1..12
    /\ t[3] \in 1..JoursDuMois(t[1], t[2])

\* pd.to_datetime on a valid text: days since 1970-01-01
to_datetime(t) ==
    LET y   == IF t[2] <= 2 THEN t[1] - 1 ELSE t[1]
        era == y \div 400
        yoe == y - era * 400
        mp  == IF t[2] > 2 THEN t[2] - 3 ELSE t[2] + 9
        doy == (153 * mp + 2) \div 5 + t[3] - 1
        doe == yoe * 365 + yoe \div 4 - yoe \div 100 + doy
    IN  era * 146097 + doe - 719468

\* the year and month of a timestamp
Civil(ts) ==
    LET z   == ts + 719468
        era == z \div 146097
        doe == z - era * 146097
        yoe == (doe - doe \div 1460 + doe \div 36524 - doe \div 146096) \div 365
        doy == doe - (365 * yoe + yoe \div 4 - yoe \div 100)
        mp  == (5 * doy + 2) \div 153
        m   == IF mp < 10 THEN mp + 3 ELSE mp - 9
    IN  [year |-> yoe + era * 400 + (IF m <= 2 THEN 1 ELSE 0), month |-> m]

\* the labels with a fifth key
regroupements_labels_avec_D == {"W", "M", "Q", "Y", "D"}

\* lines 79-84: the keys of the dict
regroupements_labels == {"W", "M", "Q", "Y"}

\* line 93: Series.dt.to_period(regroupement), as the period's ordinal:
\* weeks run Monday to Sunday, quarters start in January, April, July, October
\* (line 86 lets only W, M, Q, Y through; 'D' is pandas' daily period)
to_period(ts, regroupement) ==
    LET c == Civil(ts)
    IN  CASE regroupement = "W" -> (ts + 3) \div 7 + 1
          [] regroupement = "M" -> (c.year - 1970) * 12 + c.month - 1
          [] regroupement = "Q" -> (c.year - 1970) * 4 + (c.month - 1) \div 3
          [] regroupement = "Y" -> c.year - 1970
          [] regroupement = "D" -> ts

(***************************************************************************)
(* The inputs: the CSV file on disk and the arguments of the call.         *)
(***************************************************************************)
\* line 11: the column names the caller passes
colonne_pays == "pays"
colonne_date == "date"

\* another default
date_debut_defaut_2019 == <<2019, 1, 1>>

\* line 11 and line 229: the default of date_debut, '2020-01-01'
date_debut_defaut == <<2020, 1, 1>>

\* the caller leaves date_debut out
Omis == <<>>

\* country cells of the files considered: "FR ", " fR", "us" and an empty cell
CodesPays == { <<"F","R"," ">>, <<" ","f","R">>, <<"u","s">>, NaN }

\* date cells of the files considered: 2019-12-30 (a Monday), 2020-01-01,
\* 2020-01-06 (the next Monday) and the unparsable 2020-13-45
DatesTexte == { <<2019,12,30>>, <<2020,1,1>>, <<2020,1,6>>, <<2020,13,45>> }

\* values of date_debut: left out, '2019-12-30', and the unparsable '2020-13-45'
DatesDebut == { Omis, <<2019,12,30>>, <<2020,13,45>> }

\* values of regroupement: the four supported ones and 'D'
Regroupements == {"W", "M", "Q", "Y", "D"}

SeqMax(S, n) == UNION { [1..k -> S] : k \in 0..n }

\* country and date cells of the files handed to analyser_multiple_regroupements
CodesPaysMultiple == { <<"F","R"," ">>, <<"u","s">> }
DatesTexteMultiple == { <<2019,12,30>>, <<2020,1,1>> }

\* the files with at most n data rows of cells from codes and dates: a missing
\* file, an unreadable one, and files whose header holds both columns, only
\* the country or only the date
Fichiers(codes, dates, n) ==
    { [existe |-> FALSE, lisible |-> FALSE, colonnes |-> <<>>, lignes |-> <<>>],
      [existe |-> TRUE,  lisible |-> FALSE, colonnes |-> <<>>, lignes |-> <<>>] }
    \cup { [existe |-> TRUE, lisible |-> TRUE,
            colonnes |-> <<"pays", "date">>, lignes |-> l] :
           l \in SeqMax([pays : codes, date : dates], n) }
    \cup { [existe |-> TRUE, lisible |-> TRUE, colonnes |-> <<"pays">>, lignes |-> l] :
           l \in SeqMax([pays : codes], 1) }
    \cup { [existe |-> TRUE, lisible |-> TRUE, colonnes |-> <<"date">>, lignes |-> l] :
           l \in SeqMax([date : dates], 1) }

(***************************************************************************)
(* State.                                                                  *)
(***************************************************************************)
VARIABLES
    fichier_csv,          \* the CSV file named by the call
    date_debut_arg,       \* the date_debut the caller gives, or Omis
    regroupement,         \* the regroupement of the current call
    mode,                 \* "simple": one call; "multiple": analyser_multiple_regroupements
    pc,                   \* the position in analyser_ventes_francophones
    df,                   \* the rows of the data frame
    colonnes,             \* df.columns
    dtype_pays,           \* the dtype of df[colonne_pays]: "object" or "float64"
    date_limite,          \* the timestamp of date_debut, once parsed (0 before)
    ventes_par_periode,   \* the counts table
    ventes_pourcentages,  \* the percentage table
    sortie,               \* what was printed
    retour,               \* the value returned by the current call
    exception,            \* the exception the current call raised, or ""
    i_boucle,             \* iterations done by analyser_multiple_regroupements
    appels,               \* the calls analyser_multiple_regroupements made
    issues                \* how each of those calls ended

vars == << fichier_csv, date_debut_arg, regroupement, mode, pc, df, colonnes,
           dtype_pays, date_limite, ventes_par_periode, ventes_pourcentages, sortie, retour,
           exception, i_boucle, appels, issues >>

args    == << fichier_csv, date_debut_arg, mode >>
boucle  == << i_boucle, appels, issues >>

None == <<>>
TableVide == [index |-> <<>>, lignes |-> <<>>]

\* one printed line
Msg(m, col, dispo, n) == [msg |-> m, colonne |-> col, disponibles |-> dispo, n |-> n]

\* line 11: the date_debut the function body sees
date_debut == IF date_debut_arg = Omis THEN date_debut_defaut ELSE date_debut_arg

\* the locals of a call that has just begun
Debut ==
    /\ pc = "lecture"
    /\ df = <<>>
    /\ colonnes = <<>>
    /\ dtype_pays = "object"
    /\ date_limite = 0
    /\ ventes_par_periode = TableVide
    /\ ventes_pourcentages = TableVide
    /\ retour = None
    /\ exception = ""

Init ==
    /\ fichier_csv \in Fichiers(CodesPays, DatesTexte, MaxLignes)
    /\ date_debut_arg \in DatesDebut
    /\ regroupement \in Regroupements
    /\ mode = "simple"
    /\ Debut
    /\ sortie = <<>>
    /\ i_boucle = 0
    /\ appels = <<>>
    /\ issues = <<>>

\* a bare `return` after printing the lines `lignes`
Abandon(lignes) ==
    /\ sortie' = sortie \o lignes
    /\ retour' = None
    /\ pc' = "fin"

\* an exception that leaves the function
Leve(e) ==
    /\ exception' = e
    /\ retour' = None
    /\ pc' = "fin"

(***************************************************************************)
(* analyser_ventes_francophones, step by step.                             *)
(***************************************************************************)
\* lines 25-35
LireCSV ==
    /\ pc = "lecture"
    /\ IF ~fichier_csv.existe
       THEN /\ Abandon(<<Msg("fichier_non_trouve", "", <<>>, 0)>>)
            /\ UNCHANGED <<df, colonnes, dtype_pays, date_limite>>
       ELSE IF ~fichier_csv.lisible
       THEN /\ Abandon(<<Msg("erreur_chargement", "", <<>>, 0)>>)
            /\ UNCHANGED <<df, colonnes, dtype_pays, date_limite>>
       ELSE /\ df' = fichier_csv.lignes
            /\ colonnes' = fichier_csv.colonnes
            /\ dtype_pays' =
                 IF /\ \E j \in 1..Len(fichier_csv.colonnes) :
                          fichier_csv.colonnes[j] = colonne_pays
                    /\ fichier_csv.lignes # <<>>
                    /\ \A k \in 1..Len(fichier_csv.lignes) :
                          fichier_csv.lignes[k].pays = NaN
                 THEN "float64" ELSE "object"
            /\ sortie' = Append(sortie,
                   Msg("fichier_charge", "", <<>>, Len(fichier_csv.lignes)))
            /\ pc' = "colonnes"
            /\ UNCHANGED <<retour, date_limite>>
    /\ UNCHANGED <<args, regroupement, ventes_par_periode, ventes_pourcentages,
                   exception, boucle>>

DansColonnes(c) == \E j \in 1..Len(colonnes) : colonnes[j] = c

\* lines 39 and 44 without lines 40 and 45
msg_colonne_absente_seule(c) == << Msg("colonne_absente", c, <<>>, 0) >>

\* lines 39-40 and 44-45: the two lines printed for a missing column
msg_colonne_absente(c) ==
    << Msg("colonne_absente", c, <<>>, 0),
       Msg("colonnes_disponibles", "", colonnes, 0) >>

\* lines 37-46
VerifierColonnes ==
    /\ pc = "colonnes"
    /\ IF ~DansColonnes(colonne_pays)
       THEN Abandon(msg_colonne_absente(colonne_pays))
       ELSE IF ~DansColonnes(colonne_date)
       THEN Abandon(msg_colonne_absente(colonne_date))
       ELSE /\ pc' = "conversion"
            /\ UNCHANGED <<sortie, retour>>
    /\ UNCHANGED <<args, regroupement, df, colonnes, dtype_pays, date_limite, ventes_par_periode,
                   ventes_pourcentages, exception, boucle>>

\* lines 48-53
ConvertirDates ==
    /\ pc = "conversion"
    /\ IF \A k \in 1..Len(df) : DateValide(df[k].date)
       THEN /\ df' = [k \in 1..Len(df) |->
                        [df[k] EXCEPT !.date = to_datetime(df[k].date)]]
            /\ pc' = "filtrage"
            /\ UNCHANGED <<sortie, retour>>
       ELSE /\ Abandon(<<Msg("erreur_conversion_dates", "", <<>>, 0)>>)
            /\ UNCHANGED df
    /\ UNCHANGED <<args, regroupement, colonnes, dtype_pays, date_limite, ventes_par_periode,
                   ventes_pourcentages, exception, boucle>>

\* the comparison of line 59 made strict
garder_strict(date, limite) == date > limite

\* line 59: the comparison df[colonne_date] >= date_limite, for one row
garder(date, limite) == date >= limite

\* line 62 without its test
vide_jamais(d) == FALSE

\* line 62: len(df) == 0
vide(d) == Len(d) = 0

\* line 59: df[df[colonne_date] >= date_limite]
RECURSIVE filtrer(_, _)
filtrer(d, limite) ==
    IF d = <<>> THEN <<>>
    ELSE IF garder(Head(d).date, limite)
         THEN <<Head(d)>> \o filtrer(Tail(d), limite)
         ELSE filtrer(Tail(d), limite)

\* lines 55-67
FiltrerDates ==
    /\ pc = "filtrage"
    /\ IF ~DateValide(date_debut)
       THEN /\ Abandon(<<Msg("erreur_filtrage_date", "", <<>>, 0)>>)
            /\ UNCHANGED <<df, date_limite>>
       ELSE LET limite == to_datetime(date_debut)
                garde  == filtrer(df, limite)
                ligne  == Msg("filtrage", "", <<>>, Len(garde))
            IN  /\ date_limite' = limite
                /\ df' = garde
                /\ IF vide(garde)
                   THEN Abandon(<<ligne, Msg("aucune_donnee", "", <<>>, 0)>>)
                   ELSE /\ sortie' = Append(sortie, ligne)
                        /\ pc' = "classification"
                        /\ UNCHANGED retour
    /\ UNCHANGED <<args, regroupement, colonnes, dtype_pays, ventes_par_periode,
                   ventes_pourcentages, exception, boucle>>

\* lines 73-76: the .str accessor raises on a column that holds no text
Classifier ==
    /\ pc = "classification"
    /\ IF dtype_pays # "object"
       THEN /\ Leve("AttributeError")
            /\ UNCHANGED <<df, colonnes>>
       ELSE /\ df' = [k \in 1..Len(df) |->
                        [pays |-> normaliser(df[k].pays),
                         date |-> df[k].date,
                         est_francophone |-> isin(normaliser(df[k].pays))]]
            /\ colonnes' = Append(colonnes, "est_francophone")
            /\ pc' = "regroupement"
            /\ UNCHANGED <<retour, exception>>
    /\ UNCHANGED <<args, regroupement, dtype_pays, date_limite, ventes_par_periode,
                   ventes_pourcentages, sortie, boucle>>

\* lines 78-90
VerifierRegroupement ==
    /\ pc = "regroupement"
    /\ IF regroupement \notin regroupements_labels
       THEN Abandon(<<Msg("regroupement_non_supporte", "", <<>>, 0)>>)
       ELSE /\ pc' = "agregation"
            /\ UNCHANGED <<sortie, retour>>
    /\ UNCHANGED <<args, regroupement, df, colonnes, dtype_pays, date_limite, ventes_par_periode,
                   ventes_pourcentages, exception, boucle>>

\* the periods in descending order
RECURSIVE TrierDecroissant(_)
TrierDecroissant(S) ==
    IF S = {} THEN <<>>
    ELSE LET m == CHOOSE x \in S : \A y \in S : x >= y
         IN  <<m>> \o TrierDecroissant(S \ {m})

\* line 96: groupby sorts the group keys
RECURSIVE TrierCroissant(_)
TrierCroissant(S) ==
    IF S = {} THEN <<>>
    ELSE LET m == CHOOSE x \in S : \A y \in S : x <= y
         IN  <<m>> \o TrierCroissant(S \ {m})

\* line 96: groupby(['periode', 'est_francophone']).size().unstack(fill_value=0)
\* on rows d that carry their period: one row per period present, in ascending
\* order, one column per class present, FALSE before TRUE, zero where a period
\* has no row of a class
unstack(d) ==
    LET idx  == TrierCroissant({ d[k].periode : k \in 1..Len(d) })
        cols == IF \A k \in 1..Len(d) : d[k].est_francophone THEN <<TRUE>>
                ELSE IF \A k \in 1..Len(d) : ~d[k].est_francophone THEN <<FALSE>>
                ELSE <<FALSE, TRUE>>
    IN  [index    |-> idx,
         columns  |-> cols,
         valeurs  |-> [i \in 1..Len(idx) |-> [j \in 1..Len(cols) |->
                         Cardinality({ k \in 1..Len(d) :
                             /\ d[k].periode = idx[i]
                             /\ d[k].est_francophone = cols[j] })]]]

\* lines 99-108: the two columns renamed by position, and their sum
compter(u) ==
    [index  |-> u.index,
     lignes |-> [i \in 1..Len(u.index) |->
                   [c \in {"Autres pays", "Pays francophones", "Total"} |->
                      CASE c = "Autres pays"       -> u.valeurs[i][1]
                        [] c = "Pays francophones" -> u.valeurs[i][2]
                        [] c = "Total"             -> u.valeurs[i][1] + u.valeurs[i][2]]]]

\* lines 92-108: line 99 raises ValueError (length mismatch) unless the table
\* has exactly two columns
Agreger ==
    /\ pc = "agregation"
    /\ LET d == [k \in 1..Len(df) |->
                   [pays |-> df[k].pays, date |-> df[k].date,
                    est_francophone |-> df[k].est_francophone,
                    periode |-> to_period(df[k].date, regroupement)]]
           u == unstack(d)
       IN  /\ df' = d
           /\ colonnes' = Append(colonnes, "periode")
           /\ IF Len(u.columns) # 2
              THEN /\ Leve("ValueError")
                   /\ UNCHANGED ventes_par_periode
              ELSE /\ ventes_par_periode' = compter(u)
                   /\ pc' = "pourcentages"
                   /\ UNCHANGED <<retour, exception>>
    /\ UNCHANGED <<args, regroupement, dtype_pays, date_limite, ventes_pourcentages, sortie, boucle>>

\* lines 114-121 without * 100
pourcentage_sans_100(nombre, total) == FloatDiv(nombre, total)

\* lines 114-121: column / Total * 100, in float64
pourcentage(nombre, total) == FloatMul100(FloatDiv(nombre, total))

\* lines 110-124, for one row of the counts table
pourcentages_ligne(l) ==
    IF l["Total"] > 0
    THEN [c \in {"Autres pays", "Pays francophones", "Total"} |->
            IF c = "Total" THEN FloatOfInt(100) ELSE pourcentage(l[c], l["Total"])]
    ELSE [c \in {"Autres pays", "Pays francophones", "Total"} |-> FloatZero]

\* lines 110-124
CalculerPourcentages ==
    /\ pc = "pourcentages"
    /\ ventes_pourcentages' =
         [index  |-> ventes_par_periode.index,
          lignes |-> [i \in 1..Len(ventes_par_periode.lignes) |->
                        pourcentages_ligne(ventes_par_periode.lignes[i])]]
    /\ pc' = "rapport"
    /\ UNCHANGED <<args, regroupement, df, colonnes, dtype_pays, date_limite, ventes_par_periode,
                   sortie, retour, exception, boucle>>

RECURSIVE Somme(_, _)
Somme(lignes, c) ==
    IF lignes = <<>> THEN 0 ELSE Head(lignes)[c] + Somme(Tail(lignes), c)

\* lines 126-227: the chart and the printed summary, then the return of both tables
Rapport ==
    /\ pc = "rapport"
    /\ sortie' = Append(sortie, Msg("resume", "", <<>>,
                     Somme(ventes_par_periode.lignes, "Pays francophones")
                       + Somme(ventes_par_periode.lignes, "Autres pays")))
    /\ retour' = <<ventes_par_periode, ventes_pourcentages>>
    /\ pc' = "fin"
    /\ UNCHANGED <<args, regroupement, df, colonnes, dtype_pays, date_limite, ventes_par_periode,
                   ventes_pourcentages, exception, boucle>>

Next ==
    \/ LireCSV
    \/ VerifierColonnes
    \/ ConvertirDates
    \/ FiltrerDates
    \/ Classifier
    \/ VerifierRegroupement
    \/ Agreger
    \/ CalculerPourcentages
    \/ Rapport

Spec == Init /\ [][Next]_vars

(***************************************************************************)
(* analyser_multiple_regroupements.                                        *)
(***************************************************************************)
\* lines 239-244: the keys of the dict, in insertion order
regroupements == <<"W", "M", "Q", "Y">>

InitMultiple ==
    /\ fichier_csv \in Fichiers(CodesPaysMultiple, DatesTexteMultiple, MaxLignesMultiple)
    /\ date_debut_arg \in DatesDebut
    /\ regroupement = ""
    /\ mode = "multiple"
    /\ pc = "boucle"
    /\ df = <<>>
    /\ colonnes = <<>>
    /\ dtype_pays = "object"
    /\ date_limite = 0
    /\ ventes_par_periode = TableVide
    /\ ventes_pourcentages = TableVide
    /\ retour = None
    /\ exception = ""
    /\ sortie = <<>>
    /\ i_boucle = 0
    /\ appels = <<>>
    /\ issues = <<>>

\* lines 248-254: the next iteration calls analyser_ventes_francophones
Appeler ==
    /\ pc = "boucle"
    /\ i_boucle < Len(regroupements)
    /\ regroupement' = regroupements[i_boucle + 1]
    /\ appels' = Append(appels,
           [fichier_csv |-> fichier_csv, colonne_pays |-> colonne_pays,
            colonne_date |-> colonne_date,
            regroupement |-> regroupements[i_boucle + 1],
            date_debut |-> date_debut])
    /\ pc' = "lecture"
    /\ df' = <<>>
    /\ colonnes' = <<>>
    /\ dtype_pays' = "object"
    /\ date_limite' = 0
    /\ ventes_par_periode' = TableVide
    /\ ventes_pourcentages' = TableVide
    /\ retour' = None
    /\ exception' = ""
    /\ UNCHANGED <<args, sortie, i_boucle, issues>>

\* lines 253-258 without the try: an exception ends the helper
attraper_sans_try(e) ==
    /\ sortie' = sortie
    /\ issues' = Append(issues,
           IF e # "" THEN "exception"
           ELSE IF retour = None THEN "None" ELSE "tables")
    /\ exception' = e
    /\ i_boucle' = i_boucle + 1
    /\ pc' = IF e # "" THEN "termine" ELSE "boucle"

\* lines 253-258: the call is over; an exception it raised is caught and printed
attraper(e) ==
    /\ sortie' = IF e = "" THEN sortie
                 ELSE Append(sortie, Msg("erreur_analyse", "", <<>>, 0))
    /\ issues' = Append(issues,
           IF e # "" THEN "exception"
           ELSE IF retour = None THEN "None" ELSE "tables")
    /\ exception' = ""
    /\ i_boucle' = i_boucle + 1
    /\ pc' = "boucle"

FinAppel ==
    /\ pc = "fin"
    /\ mode = "multiple"
    /\ attraper(exception)
    /\ UNCHANGED <<args, regroupement, df, colonnes, dtype_pays, date_limite, ventes_par_periode,
                   ventes_pourcentages, retour, appels>>

\* line 248: the dict is exhausted
Terminer ==
    /\ pc = "boucle"
    /\ i_boucle = Len(regroupements)
    /\ pc' = "termine"
    /\ UNCHANGED <<args, regroupement, df, colonnes, dtype_pays, date_limite, ventes_par_periode,
                   ventes_pourcentages, sortie, retour, exception, boucle>>

NextMultiple ==
    \/ Next
    \/ Appeler
    \/ FinAppel
    \/ Terminer

\* the interpreter runs the statements one after the other
SpecMultiple == InitMultiple /\ [][NextMultiple]_vars /\ WF_vars(NextMultiple)

(***************************************************************************)
(* Properties.  They are stated on the inputs of the call (the file on     *)
(* disk and the arguments) and on what the call printed and returned.      *)
(***************************************************************************)
\* a <= b for two date texts 'YYYY-MM-DD'
DateTexteLE(a, b) ==
    \/ a[1] < b[1]
    \/ a[1] = b[1] /\ a[2] < b[2]
    \/ a[1] = b[1] /\ a[2] = b[2] /\ a[3] <= b[3]

Entete(c) == \E j \in 1..Len(fichier_csv.colonnes) : fichier_csv.colonnes[j] = c

\* the file loads and holds both configured columns
Charge ==
    /\ fichier_csv.existe
    /\ fichier_csv.lisible
    /\ Entete(colonne_pays)
    /\ Entete(colonne_date)

\* moreover every date cell and date_debut name a calendar day
DatesLisibles ==
    /\ Charge
    /\ \A k \in 1..Len(fichier_csv.lignes) : DateValide(fichier_csv.lignes[k].date)
    /\ DateValide(date_debut)

\* the input records dated on or after date_debut
Gardees ==
    { k \in 1..Len(fichier_csv.lignes) :
        DateTexteLE(date_debut, fichier_csv.lignes[k].date) }

\* the country column holds at least one text cell
PaysTexte == \E k \in 1..Len(fichier_csv.lignes) : fichier_csv.lignes[k].pays # NaN

\* the call returned its two tables
Reussi == pc = "fin" /\ retour # None

Dernier == sortie[Len(sortie)]

\* a country cell whose text, apart from leading and trailing blanks and from
\* the case of its letters, is one of fr, be, ch, nc, ca, lu
MemeLettre(x, c) ==
    \/ x = c
    \/ \E j \in 1..26 : Minuscules[j] = c /\ Majuscules[j] = x

Francophone(cell) ==
    /\ cell # NaN
    /\ \E code \in { <<"f","r">>, <<"b","e">>, <<"c","h">>,
                     <<"n","c">>, <<"c","a">>, <<"l","u">> } :
       \E i \in 0..Len(cell) :
          /\ i + 2 <= Len(cell)
          /\ \A k \in 1..i : cell[k] \in {" ", "\t"}
          /\ MemeLettre(cell[i + 1], code[1])
          /\ MemeLettre(cell[i + 2], code[2])
          /\ \A k \in (i + 3)..Len(cell) : cell[k] \in {" ", "\t"}

\* the period of input record k under the regroupement of the call
PeriodeDe(k) == to_period(to_datetime(fichier_csv.lignes[k].date), regroupement)

\* C1: whenever the two tables are returned, the 'Total' column of the counts
\* table sums to the number of input records dated on or after date_debut,
\* a record dated exactly on date_debut included
C1_TotalEgalGardees ==
    Reussi => Somme(retour[1].lignes, "Total") = Cardinality(Gardees)

\* the tables are returned, a record is dated exactly on date_debut and
\* another one is dated before it
C1_Temoin ==
    /\ Reussi
    /\ \E k \in Gardees : fichier_csv.lignes[k].date = date_debut
    /\ Cardinality(Gardees) < Len(fichier_csv.lignes)

(***************************************************************************)
(* The float64 sum of two doubles, for the statement of C2.                *)
(***************************************************************************)
\* limb j of mantissa m, limb 0 the least significant
Limb(m, j) == IF j \in 0..2 THEN m[3 - j] ELSE 0

\* bit i of mantissa m, bit 0 the least significant
Bit(m, i) == (Limb(m, i \div LimbBits) \div 2^(i % LimbBits)) % 2

\* mantissa m shifted right by n bits
ShiftRight(m, n) ==
    LET a == n \div LimbBits
        b == n % LimbBits
        L(j) == Limb(m, j + a) \div 2^b
                  + (Limb(m, j + a + 1) % 2^b) * 2^(LimbBits - b)
    IN  <<L(2), L(1), L(0)>>

\* x + y for doubles x, y >= 0
FloatAdd(x, y) ==
    IF x = FloatZero THEN y
    ELSE IF y = FloatZero THEN x
    ELSE LET X      == IF x.e >= y.e THEN x ELSE y
             Y      == IF x.e >= y.e THEN y ELSE x
             n      == X.e - Y.e
             yi     == ShiftRight(Y.m, n)
             guard  == IF n = 0 THEN 0 ELSE Bit(Y.m, n - 1)
             sticky == \E i \in 0..(n - 2) : Bit(Y.m, i) = 1
             s0     == X.m[3] + yi[3]
             s1     == X.m[2] + yi[2] + s0 \div Base
             s2     == X.m[1] + yi[1] + s1 \div Base
             m1     == <<s2, s1 % Base, s0 % Base>>
             m2     == << s2 \div 2,
                          (s1 % Base) \div 2 + (s2 % 2) * HiMax,
                          (s0 % Base) \div 2 + (s1 % 2) * HiMax >>
             up1    == guard = 1 /\ (sticky \/ m1[3] % 2 = 1)
             up2    == s0 % 2 = 1 /\ (guard = 1 \/ sticky \/ m2[3] % 2 = 1)
         IN  IF s2 < HiMax
             THEN (IF up1 THEN FloatSucc(m1, X.e) ELSE [m |-> m1, e |-> X.e])
             ELSE (IF up2 THEN FloatSucc(m2, X.e + 1) ELSE [m |-> m2, e |-> X.e + 1])

\* the sum of the two percentages of row l of the percentage table
SommePourcentages(l) == FloatAdd(l["Pays francophones"], l["Autres pays"])

\* x and y are the same double or at most two doubles apart (of equal exponent)
Proche(x, y) ==
    \/ x = y
    \/ FloatSucc(x.m, x.e) = y
    \/ FloatSucc(y.m, y.e) = x
    \/ FloatSucc(FloatSucc(x.m, x.e).m, FloatSucc(x.m, x.e).e) = y
    \/ FloatSucc(FloatSucc(y.m, y.e).m, FloatSucc(y.m, y.e).e) = x

ComptesCoherents ==
    \A i \in 1..Len(retour[1].lignes) :
       LET l == retour[1].lignes[i]
       IN  l["Pays francophones"] + l["Autres pays"] = l["Total"]

\* C2 as stated: in every returned row the two counts sum to the total; with
\* a positive total the two percentages sum to exactly 100 and the total
\* percentage is 100; with a zero total the three percentages are 0
C2_Original ==
    Reussi =>
      /\ ComptesCoherents
      /\ \A i \in 1..Len(retour[2].lignes) :
           LET l == retour[2].lignes[i]
           IN  IF retour[1].lignes[i]["Total"] > 0
               THEN /\ SommePourcentages(l) = FloatOfInt(100)
                    /\ l["Total"] = FloatOfInt(100)
               ELSE \A c \in DOMAIN l : l[c] = FloatZero

\* C2 amended: as C2, except that the two percentages, each computed in
\* float64 as count / total * 100, sum to 100 within two units in the last
\* place of 100 (2^-45)
C2_SommeProcheDe100 ==
    Reussi =>
      /\ ComptesCoherents
      /\ \A i \in 1..Len(retour[2].lignes) :
           LET l == retour[2].lignes[i]
           IN  IF retour[1].lignes[i]["Total"] > 0
               THEN /\ Proche(SommePourcentages(l), FloatOfInt(100))
                    /\ l["Total"] = FloatOfInt(100)
               ELSE \A c \in DOMAIN l : l[c] = FloatZero

\* a returned row whose two percentages do not sum to 100 (1 and 2 of 3)
C2_Temoin ==
    /\ Reussi
    /\ \E i \in 1..Len(retour[2].lignes) :
         /\ retour[1].lignes[i]["Pays francophones"] = 1
         /\ retour[1].lignes[i]["Autres pays"] = 2
         /\ SommePourcentages(retour[2].lignes[i]) # FloatOfInt(100)

\* C3: in the returned counts table a kept record counts under 'Pays
\* francophones' exactly when its country cell, apart from case and from
\* leading and trailing blanks, is one of fr, be, ch, nc, ca, lu, and under
\* 'Autres pays' otherwise (an empty cell included)
C3_Classification ==
    Reussi =>
      \A i \in 1..Len(retour[1].index) :
         /\ retour[1].lignes[i]["Pays francophones"] =
              Cardinality({ k \in Gardees :
                 /\ PeriodeDe(k) = retour[1].index[i]
                 /\ Francophone(fichier_csv.lignes[k].pays) })
         /\ retour[1].lignes[i]["Autres pays"] =
              Cardinality({ k \in Gardees :
                 /\ PeriodeDe(k) = retour[1].index[i]
                 /\ ~Francophone(fichier_csv.lignes[k].pays) })

\* the tables are returned for kept records "FR ", " fR" and an empty cell
C3_Temoin ==
    /\ Reussi
    /\ \E k \in Gardees : fichier_csv.lignes[k].pays = <<"F","R"," ">>
    /\ \E k \in Gardees : fichier_csv.lignes[k].pays = <<" ","f","R">>
    /\ \E k \in Gardees : fichier_csv.lignes[k].pays = NaN

\* C4: the returned tables hold one row per period that holds a kept
\* record, no other row, in strictly ascending order of period, and the
\* order of the periods agrees with the order of the dates
C4_LignesParPeriode ==
    Reussi =>
      /\ { retour[1].index[i] : i \in 1..Len(retour[1].index) }
           = { PeriodeDe(k) : k \in Gardees }
      /\ \A i \in 1..(Len(retour[1].index) - 1) :
           retour[1].index[i] < retour[1].index[i + 1]
      /\ \A i \in 1..Len(retour[1].lignes) : retour[1].lignes[i]["Total"] >= 1
      /\ retour[2].index = retour[1].index
      /\ Len(retour[1].lignes) = Len(retour[1].index)
      /\ Len(retour[2].lignes) = Len(retour[1].index)
      /\ \A j, k \in Gardees :
           DateTexteLE(fichier_csv.lignes[j].date, fichier_csv.lignes[k].date)
             => PeriodeDe(j) <= PeriodeDe(k)

\* tables of at least two rows, returned for a file whose first record is
\* dated after its second one
C4_Temoin ==
    /\ Reussi
    /\ Len(retour[1].index) >= 2
    /\ Len(fichier_csv.lignes) >= 2
    /\ ~DateTexteLE(fichier_csv.lignes[1].date, fichier_csv.lignes[2].date)

\* the lines a call prints when it gives up
MsgErreurs == { "fichier_non_trouve", "erreur_chargement", "colonne_absente",
                "colonnes_disponibles", "erreur_conversion_dates",
                "erreur_filtrage_date", "aucune_donnee", "regroupement_non_supporte" }

\* C5: a call on a loaded file none of whose records is dated on or after
\* date_debut ends on the 'no data' line, having added no classification or
\* period column and built no table, and returns None; a call that printed an
\* error or raised returns None, and the two tables are returned only by a call
\* that went through every step
C5_AucuneDonnee ==
    /\ (pc = "fin" /\ DatesLisibles /\ Gardees = {}) =>
          /\ Dernier.msg = "aucune_donnee"
          /\ retour = None
          /\ exception = ""
          /\ ~DansColonnes("est_francophone")
          /\ ~DansColonnes("periode")
          /\ ventes_par_periode = TableVide
          /\ ventes_pourcentages = TableVide
    /\ pc # "fin" => retour = None
    /\ (pc = "fin" /\ (exception # "" \/ Dernier.msg \in MsgErreurs)) => retour = None
    /\ retour # None =>
          /\ exception = ""
          /\ Dernier.msg = "resume"
          /\ \A i \in 1..Len(sortie) : sortie[i].msg \notin MsgErreurs
          /\ retour = <<ventes_par_periode, ventes_pourcentages>>
          /\ Len(ventes_par_periode.lignes) >= 1
          /\ Len(ventes_pourcentages.lignes) = Len(ventes_par_periode.lignes)

\* a call that ended on a file with records, all dated before date_debut
C5_Temoin ==
    /\ pc = "fin"
    /\ DatesLisibles
    /\ fichier_csv.lignes # <<>>
    /\ Gardees = {}

\* C6 as stated: with a regroupement other than W, M, Q, Y the call ends on
\* the 'unsupported regroupement' error and returns None, whatever the file
\* and date_debut
C6_Original ==
    (pc = "fin" /\ regroupement \notin {"W", "M", "Q", "Y"}) =>
       /\ Dernier.msg = "regroupement_non_supporte"
       /\ retour = None

\* C6 amended: with a regroupement other than W, M, Q, Y no table is
\* returned; the call ends on the 'unsupported regroupement' error exactly when the file
\* loads with both columns, every date and date_debut parse, a record is dated
\* on or after date_debut and the country column holds text
C6_RegroupementRefuse ==
    (pc = "fin" /\ regroupement \notin {"W", "M", "Q", "Y"}) =>
       /\ retour = None
       /\ Dernier.msg = "regroupement_non_supporte"
            <=> (DatesLisibles /\ Gardees # {} /\ PaysTexte)
       /\ Dernier.msg = "regroupement_non_supporte" => exception = ""

\* a call with regroupement 'D' that ended on the 'unsupported' error
C6_Temoin ==
    /\ pc = "fin"
    /\ regroupement = "D"
    /\ Dernier.msg = "regroupement_non_supporte"

\* what a call hands its caller: the value returned and the exception raised
Issue == <<retour, exception>>

\* C7 as stated: the caller can tell the kinds of error apart from what the
\* call hands it: after an error other than 'file not found' the call hands
\* its caller something else than after 'file not found' (None, no exception)
C7_Original ==
    (pc = "fin" /\ Dernier.msg \in MsgErreurs /\ Dernier.msg # "fichier_non_trouve") =>
       Issue # <<None, "">>

\* C7 amended: each kind of error ends the call, which returns None whatever
\* the kind, and is printed as a line of its own kind: only the printed line
\* tells which of the source, a configured column, a date, date_debut, the
\* filtered rows or the regroupement failed; a missing column is printed with
\* the whole header
C7_ErreursDistinctes ==
    /\ \A i \in 1..Len(sortie) :
          sortie[i].msg \in MsgErreurs => (pc = "fin" /\ i >= Len(sortie) - 1)
    /\ pc = "fin" =>
          /\ Dernier.msg = "fichier_non_trouve" <=> ~fichier_csv.existe
          /\ Dernier.msg = "erreur_chargement"
               <=> (fichier_csv.existe /\ ~fichier_csv.lisible)
          /\ Dernier.msg = "colonnes_disponibles"
               <=> (fichier_csv.existe /\ fichier_csv.lisible /\ ~Charge)
          /\ Dernier.msg = "colonnes_disponibles" =>
               /\ Dernier.disponibles = fichier_csv.colonnes
               /\ sortie[Len(sortie) - 1].msg = "colonne_absente"
               /\ sortie[Len(sortie) - 1].colonne =
                    IF ~Entete("pays") THEN "pays" ELSE "date"
          /\ Dernier.msg = "erreur_conversion_dates"
               <=> (Charge /\ \E k \in 1..Len(fichier_csv.lignes) :
                                 ~DateValide(fichier_csv.lignes[k].date))
          /\ Dernier.msg = "erreur_filtrage_date"
               <=> (/\ Charge
                    /\ \A k \in 1..Len(fichier_csv.lignes) :
                          DateValide(fichier_csv.lignes[k].date)
                    /\ ~DateValide(date_debut))
          /\ Dernier.msg = "aucune_donnee" <=> (DatesLisibles /\ Gardees = {})
          /\ Dernier.msg = "regroupement_non_supporte"
               <=> (/\ DatesLisibles /\ Gardees # {} /\ PaysTexte
                    /\ regroupement \notin {"W", "M", "Q", "Y"})
          /\ Dernier.msg \in MsgErreurs => (retour = None /\ exception = "")

\* a call that ended on a file without the country column
C7_Temoin ==
    /\ pc = "fin"
    /\ Dernier.msg = "colonnes_disponibles"
    /\ Dernier.disponibles = <<"date">>
    /\ sortie[Len(sortie) - 1].colonne = "pays"

\* C8: a call with a supported regroupement on a loaded file with a record
\* dated on or after date_debut returns its tables, every row holding both
\* class columns, the column of a class without record being 0
C8_DeuxColonnes ==
    (pc = "fin" /\ DatesLisibles /\ Gardees # {}
       /\ regroupement \in {"W", "M", "Q", "Y"}) =>
       /\ retour # None
       /\ \A i \in 1..Len(retour[1].lignes) :
            /\ {"Autres pays", "Pays francophones"} \subseteq DOMAIN retour[1].lignes[i]
            /\ (\A k \in Gardees : ~Francophone(fichier_csv.lignes[k].pays))
                  => retour[1].lignes[i]["Pays francophones"] = 0
            /\ (\A k \in Gardees : Francophone(fichier_csv.lignes[k].pays))
                  => retour[1].lignes[i]["Autres pays"] = 0

\* the timestamp of the earliest record of the file
PlusAncienne ==
    CHOOSE t \in { to_datetime(fichier_csv.lignes[k].date) :
                     k \in 1..Len(fichier_csv.lignes) } :
       \A k \in 1..Len(fichier_csv.lignes) : t <= to_datetime(fichier_csv.lignes[k].date)

\* C9 as stated: when date_debut is left out the cutoff is the earliest
\* record date, no record is filtered out and all are aggregated
C9_Original ==
    (/\ date_debut_arg = Omis
     /\ pc \in {"classification", "fin"}
     /\ DatesLisibles
     /\ fichier_csv.lignes # <<>>) =>
       /\ date_limite = PlusAncienne
       /\ Dernier.msg # "aucune_donnee"
       /\ pc = "classification" => Len(df) = Len(fichier_csv.lignes)
       /\ Reussi => Somme(retour[1].lignes, "Total") = Len(fichier_csv.lignes)

\* the input records dated on or after 2020-01-01
Depuis2020 ==
    { k \in 1..Len(fichier_csv.lignes) :
        DateTexteLE(<<2020, 1, 1>>, fichier_csv.lignes[k].date) }

\* C9 amended: when date_debut is left out the cutoff is 2020-01-01: the
\* records dated before it are filtered out and exactly the records dated on
\* or after it are aggregated
C9_DefautFixe ==
    (/\ date_debut_arg = Omis
     /\ pc \in {"classification", "fin"}
     /\ DatesLisibles
     /\ fichier_csv.lignes # <<>>) =>
       /\ date_limite = 18262
       /\ Dernier.msg = "aucune_donnee" <=> Depuis2020 = {}
       /\ pc = "classification" => Len(df) = Cardinality(Depuis2020)
       /\ Reussi => Somme(retour[1].lignes, "Total") = Cardinality(Depuis2020)

\* tables returned by a call without date_debut on a file with a 2019 record
C9_Temoin ==
    /\ date_debut_arg = Omis
    /\ Reussi
    /\ \E k \in 1..Len(fichier_csv.lignes) : fichier_csv.lignes[k].date = <<2019, 12, 30>>

\* the four calls analyser_multiple_regroupements has to make
AppelsAttendus ==
    [k \in 1..4 |->
       [fichier_csv |-> fichier_csv, colonne_pays |-> "pays", colonne_date |-> "date",
        regroupement |-> <<"W", "M", "Q", "Y">>[k], date_debut |-> date_debut]]

\* C10: analyser_multiple_regroupements calls analyser_ventes_francophones
\* for W, M, Q, Y in that order, once each, with the same file, columns and
\* date_debut; a call that fails or raises is followed by the next one, and
\* the helper ends after the fourth call
C10_QuatreAppels ==
    /\ [](/\ Len(appels) <= 4
          /\ appels = SubSeq(AppelsAttendus, 1, Len(appels))
          /\ Len(issues) = i_boucle
          /\ Len(appels) = IF pc \in {"boucle", "termine"} THEN i_boucle ELSE i_boucle + 1
          /\ pc = "termine" => (Len(appels) = 4 /\ Len(issues) = 4))
    /\ <>(pc = "termine")

\* the helper has ended although its first call raised and its second
\* one too
C10_Temoin ==
    /\ pc = "termine"
    /\ Len(appels) = 4
    /\ issues[1] = "exception"
    /\ issues[2] = "exception"

====
